---- MODULE Spec2Model ----
(***************************************************************************)
(* Model of newt's sysinit generator (newt/sysinit/sysinit.go) and of the  *)
(* local package store (pkg/localpackage.go): hash, load, discovery; and   *)
(* of the target commands (newt/cli/target_cmds.go): the configuration     *)
(* listing, config show and init, dep, revdep, delete.                     *)
(*                                                                         *)
(* Generated text is a sequence of lines.  A line is a record holding the  *)
(* format string used (k) and the values substituted into it, so two line  *)
(* sequences are equal exactly when the emitted bytes are equal.           *)
(***************************************************************************)
EXTENDS Integers, Sequences, FiniteSets, TLC

\* ---------------------------------------------------------------- bounds
MaxPkgs == 2
MaxFaults == 1
MaxCalls == 2
MaxShort == 1
MaxEdits == 1
MaxTargets == 2

\* ---------------------------------------------------------------- inputs
\* Package names, listed in ascending string order.
PkgNames == <<"a", "b", "c">>
EntryNames == {"f", "g"}
\* Stage numbers; two distinct stages are enough to put blocks out of order.
Stages == {1, 2}

NameRank(n) == CHOOSE i \in 1..Len(PkgNames) : PkgNames[i] = n

\* The values p.Init() can return: a map from entry point name to stage.
InitMaps == UNION {[S -> Stages] : S \in SUBSET EntryNames}

\* A package as far as sysinit looks at it: Name() and Init().
Packages == [name : {PkgNames[i] : i \in 1..Len(PkgNames)}, init : InitMaps]

\* Package lists: names are unique within a build's package universe.
PkgLists ==
    UNION {{l \in [1..n -> Packages] :
              \A i, j \in 1..n : i # j => l[i].name # l[j].name} : n \in 0..MaxPkgs}

\* All orders in which a Go "range" over a map with key set S may visit it.
Perms(S) ==
    {s \in [1..Cardinality(S) -> S] :
        \A i, j \in 1..Cardinality(S) : i # j => s[i] # s[j]}

AllEntryPerms == UNION {Perms(S) : S \in SUBSET EntryNames}

\* One visiting order of Init() for each package of the list, by package name.
Orders(pkgs) ==
    {o \in [{pkgs[i].name : i \in 1..Len(pkgs)} -> AllEntryPerms] :
        \A i \in 1..Len(pkgs) : o[pkgs[i].name] \in Perms(DOMAIN pkgs[i].init)}

\* ------------------------------------------------------------- generator
\* Slip: a stage keeps only the latest function registered under a name.
RECURSIVE addInitFuncs_dedup(_, _, _)
addInitFuncs_dedup(sm, p, names) ==
    IF names = <<>> THEN sm
    ELSE LET name == Head(names)
             stage == p.init[name]
             initFunc == [stage |-> stage, name |-> name, pkg |-> p]
             sm2 == IF stage \in DOMAIN sm
                    THEN [sm EXCEPT ![stage] =
                            Append(SelectSeq(@, LAMBDA f : f.name # name), initFunc)]
                    ELSE sm @@ (stage :> <<initFunc>>)
         IN addInitFuncs_dedup(sm2, p, Tail(names))

RECURSIVE addInitFuncs(_, _, _)
addInitFuncs(sm, p, names) ==
    IF names = <<>> THEN sm
    ELSE LET name == Head(names)
             stage == p.init[name]
             initFunc == [stage |-> stage, name |-> name, pkg |-> p]
             sm2 == IF stage \in DOMAIN sm
                    THEN [sm EXCEPT ![stage] = Append(@, initFunc)]
                    ELSE sm @@ (stage :> <<initFunc>>)
         IN addInitFuncs(sm2, p, Tail(names))

RECURSIVE buildStageMapFrom(_, _, _, _)
buildStageMapFrom(sm, pkgs, ord, i) ==
    IF i > Len(pkgs) THEN sm
    ELSE buildStageMapFrom(addInitFuncs(sm, pkgs[i], ord[pkgs[i].name]), pkgs, ord, i + 1)

buildStageMap(pkgs, ord) == buildStageMapFrom(<<>>, pkgs, ord, 1)

\* pkg.SortLclPkgs: the list ordered by package name.
RECURSIVE insertByName(_, _)
insertByName(p, sorted) ==
    IF sorted = <<>> THEN <<p>>
    ELSE IF NameRank(p.name) < NameRank(Head(sorted).name)
         THEN <<p>> \o sorted
         ELSE <<Head(sorted)>> \o insertByName(p, Tail(sorted))

RECURSIVE SortLclPkgs(_)
SortLclPkgs(pkgs) ==
    IF pkgs = <<>> THEN <<>>
    ELSE insertByName(Head(pkgs), SortLclPkgs(Tail(pkgs)))

ProtoLine(name) == [k |-> "void %s(void);", name |-> name, pkg |-> "", stage |-> 0, idx |-> 0]
StageLine(stage) == [k |-> "/*** Stage %d */", name |-> "", pkg |-> "", stage |-> stage, idx |-> 0]
LabelLine(stage, i, pkgName) == [k |-> "/* %d.%d: %s */", name |-> "", pkg |-> pkgName, stage |-> stage, idx |-> i]
CallLine(name) == [k |-> "%s();", name |-> name, pkg |-> "", stage |-> 0, idx |-> 0]
FixedLine(text) == [k |-> text, name |-> "", pkg |-> "", stage |-> 0, idx |-> 0]
FnLine(fnName) == [k |-> "void %s(void) {", name |-> fnName, pkg |-> "", stage |-> 0, idx |-> 0]

RECURSIVE protoLines(_)
protoLines(names) ==
    IF names = <<>> THEN <<>>
    ELSE <<ProtoLine(Head(names))>> \o protoLines(Tail(names))

RECURSIVE protosOf(_, _, _)
protosOf(sorted, ord, i) ==
    IF i > Len(sorted) THEN <<>>
    ELSE protoLines(ord[sorted[i].name]) \o protosOf(sorted, ord, i + 1)

\* Slip: the packages are visited in list order.
writePrototypes_unsorted(pkgs, ord) == protosOf(pkgs, ord, 1)

writePrototypes(pkgs, ord) == protosOf(SortLclPkgs(pkgs), ord, 1)

RECURSIVE stageCalls(_, _, _)
stageCalls(stage, initFuncs, i) ==
    IF i > Len(initFuncs) THEN <<>>
    ELSE <<LabelLine(stage, i - 1, initFuncs[i].pkg.name), CallLine(initFuncs[i].name)>>
         \o stageCalls(stage, initFuncs, i + 1)

writeStage(stage, initFuncs) == <<StageLine(stage)>> \o stageCalls(stage, initFuncs, 1)

\* sort.Ints
RECURSIVE insertInt(_, _)
insertInt(x, sorted) ==
    IF sorted = <<>> THEN <<x>>
    ELSE IF x <= Head(sorted) THEN <<x>> \o sorted
         ELSE <<Head(sorted)>> \o insertInt(x, Tail(sorted))

\* Slip: the stage keys are left in map order.
SortInts_none(s) == s

RECURSIVE SortInts(_)
SortInts(s) == IF s = <<>> THEN <<>> ELSE insertInt(Head(s), SortInts(Tail(s)))

RECURSIVE stageBlocks(_, _, _)
stageBlocks(stages, stageMap, i) ==
    IF i > Len(stages) THEN <<>>
    ELSE writeStage(stages[i], stageMap[stages[i]]) \o stageBlocks(stages, stageMap, i + 1)

\* ordB, ordP: visiting orders of the Init() maps in buildStageMap and in
\* writePrototypes; keyOrd: visiting order of the keys of the stage map.
write(pkgs, isLoader, ordB, ordP, keyOrd) ==
    LET stageMap == buildStageMap(pkgs, ordB)
        stages == SortInts(keyOrd)
        fnName == IF isLoader THEN "sysinit_loader" ELSE "sysinit_app"
    IN <<FixedLine("preamble"),
         FixedLine(IF isLoader THEN "#if SPLIT_LOADER" ELSE "#if !SPLIT_LOADER")>>
       \o writePrototypes(pkgs, ordP)
       \o <<FnLine(fnName)>>
       \o stageBlocks(stages, stageMap, 1)
       \o <<FixedLine("}"), FixedLine("#endif")>>

\* ------------------------------------------------------------ filesystem
SrcDirs == {"src"}
TargetNames == {"t"}

\* fmt.Sprintf("%s/%s-sysinit-loader.c" | "%s/%s-sysinit-app.c", srcDir, targetName)
PathOf(srcDir, targetName, isLoader) ==
    [dir |-> srcDir, target |-> targetName,
     suffix |-> IF isLoader THEN "-sysinit-loader.c" ELSE "-sysinit-app.c"]

AllPaths == {PathOf(d, t, l) : d \in SrcDirs, t \in TargetNames, l \in BOOLEAN}

NoFile == [exists |-> FALSE, data |-> <<>>]
File(data) == [exists |-> TRUE, data |-> data]
\* Contents that no run of the generator produces.
Junk == <<FixedLine("junk")>>

\* Slip: a read error other than "not exist" is swallowed.
writeRequired_swallow(readErr, oldSrc, contents) ==
    IF readErr # "nil"
    THEN [reqd |-> TRUE, err |-> "nil"]
    ELSE [reqd |-> oldSrc # contents, err |-> "nil"]

\* ioutil.ReadFile results: readErr is "nil", "notexist" (os.IsNotExist) or "other".
writeRequired(readErr, oldSrc, contents) ==
    IF readErr # "nil"
    THEN IF readErr = "notexist"
         THEN [reqd |-> TRUE, err |-> "nil"]
         ELSE [reqd |-> TRUE, err |-> "err"]
    ELSE [reqd |-> oldSrc # contents, err |-> "nil"]

VARIABLES
    pkgs,       \* the package list handed to write / EnsureWritten
    dirs,       \* the source directories that exist
    fs,         \* path -> file
    pc,         \* position inside EnsureWritten
    args,       \* arguments of the current / last call
    buf,        \* bytes.Buffer of the current / last call
    ret,        \* result of the last call: "none", "nil", "err"
    faults,     \* filesystem failures injected so far
    seen,       \* what a concurrent reader of the file at path last read
    calls,      \* number of calls so far
    h           \* history of the current call and of the one before

VARIABLES
    tree,       \* the directory tree under the package's basePath
    hres,       \* result of the last Hash() of tree
    ptree,      \* the tree before the last edit
    phres,      \* result of the last Hash() of ptree
    edits,      \* number of edits of the tree so far
    edit        \* the last edit: its kind and the file it touched

VARIABLES
    lcfg,       \* the descriptor (pkg.yml) that Load reads
    lres        \* the package after Load, and Load's error

VARIABLES
    dtree,      \* the directory tree under the search path
    dres        \* result of ReadLocalPackages on dtree

VARIABLES
    scfg,       \* the syscfg.Cfg handed to printCfg / yamlCfg
    sout        \* what printCfg / yamlCfg printed and returned

VARIABLES
    cin,        \* the command line: command, --force, number of targets
    cpc,        \* position inside the command handler
    NewtForce,  \* newtutil.NewtForce
    targetForce, \* the package variable targetForce
    clog        \* the stages the command went through, in order

wvars == <<pkgs, dirs, fs, pc, args, buf, ret, faults, seen, calls, h>>
hvars == <<tree, hres, ptree, phres, edits, edit>>
lvars == <<lcfg, lres>>
dvars == <<dtree, dres>>
svars == <<scfg, sout>>
cvars == <<cin, cpc, NewtForce, targetForce, clog>>
xvars == <<lvars, dvars, svars, cvars>>
vars == <<wvars, hvars, xvars>>

NoRes == [done |-> FALSE, input |-> <<>>, err |-> "nil"]
NoTree == [root |-> <<>>, ent |-> <<>>]
NoEdit == [kind |-> "none", q |-> <<>>]

InitNoHash ==
    /\ tree = NoTree
    /\ hres = NoRes
    /\ ptree = NoTree
    /\ phres = NoRes
    /\ edits = 0
    /\ edit = NoEdit

\* No descriptor file, no loaded package, no search path, no discovery yet.
NoDesc == [present |-> FALSE, readOk |-> TRUE, name |-> "", type |-> <<>>, versOk |-> TRUE]
NoLoad == [done |-> FALSE, name |-> "", packageType |-> "none", err |-> "nil"]
NoDTree == [exists |-> FALSE, ent |-> <<>>]
NoDisc == [done |-> FALSE, err |-> "nil", pkgList |-> <<>>, entered |-> {}, loaded |-> {}]

InitNoLoad ==
    /\ lcfg = NoDesc
    /\ lres = NoLoad

InitNoDisc ==
    /\ dtree = NoDTree
    /\ dres = NoDisc

NoCfg == [Settings |-> <<>>, errText |-> ""]
NoOut == [done |-> FALSE, op |-> "none", status |-> <<>>, ret |-> <<>>,
          keys |-> <<>>, ents |-> <<>>]

InitNoCfg ==
    /\ scfg = NoCfg
    /\ sout = NoOut

NoCmd == [cmd |-> "none", force |-> FALSE, n |-> 0, filter |-> FALSE]

InitNoCmd ==
    /\ cin = NoCmd
    /\ cpc = [at |-> "none", i |-> 0, anyExist |-> FALSE]
    /\ NewtForce = FALSE
    /\ targetForce = FALSE
    /\ clog = <<>>

path == PathOf(args.srcDir, args.targetName, args.isLoader)

NoArgs == [srcDir |-> "", targetName |-> "", isLoader |-> FALSE]
NoHist == [old |-> NoFile, oldDir |-> FALSE, mkdir |-> FALSE, wrote |-> FALSE,
           failed |-> {}, touched |-> FALSE,
           prevValid |-> FALSE, prevArgs |-> NoArgs, prevBuf |-> <<>>, prevRet |-> "none",
           prevTouched |-> FALSE]

InitCommon ==
    /\ pc = "idle"
    /\ args = NoArgs
    /\ buf = <<>>
    /\ ret = "none"
    /\ faults = 0
    /\ seen = NoFile
    /\ calls = 0
    /\ h = NoHist

\* The file logic only compares contents for equality, so the lists of at
\* most one package (whose generated text already varies from run to run)
\* exercise every branch of it.
Init ==
    /\ pkgs \in {l \in PkgLists : Len(l) <= 1 /\ \A i \in 1..Len(l) : l[i].name = PkgNames[1]}
    /\ dirs \in SUBSET SrcDirs
    /\ fs \in [AllPaths -> {NoFile, File(Junk)}]
    /\ \A p \in AllPaths : fs[p].exists => p.dir \in dirs
    /\ InitCommon
    /\ InitNoHash
    /\ InitNoLoad
    /\ InitNoDisc
    /\ InitNoCfg
    /\ InitNoCmd

Return(r) == pc' = "idle" /\ ret' = r

\* EnsureWritten, lines 139-147: generate into buf, compute path.
EnsureWritten_begin ==
    /\ pc = "idle"
    /\ calls < MaxCalls
    /\ calls' = calls + 1
    /\ \E srcDir \in SrcDirs, targetName \in TargetNames, isLoader \in BOOLEAN,
          ordB \in Orders(pkgs), ordP \in Orders(pkgs) :
        \E keyOrd \in Perms(DOMAIN buildStageMap(pkgs, ordB)) :
          /\ buf' = write(pkgs, isLoader, ordB, ordP, keyOrd)
          /\ args' = [srcDir |-> srcDir, targetName |-> targetName, isLoader |-> isLoader]
          /\ h' = [old |-> fs[PathOf(srcDir, targetName, isLoader)],
                   oldDir |-> srcDir \in dirs,
                   mkdir |-> FALSE, wrote |-> FALSE, failed |-> {}, touched |-> FALSE,
                   prevValid |-> ret # "none", prevArgs |-> args, prevBuf |-> <<>>,
                   prevRet |-> ret, prevTouched |-> h.touched]
          /\ seen' = fs[PathOf(srcDir, targetName, isLoader)]
    /\ pc' = "writeRequired"
    /\ ret' = "none"
    /\ UNCHANGED <<xvars, hvars, pkgs, dirs, fs, faults>>

\* Slip: the test of writeReqd is inverted.
AfterWriteRequired_inverted(r) ==
    IF r.err # "nil" THEN Return(r.err)
    ELSE IF r.reqd THEN Return("nil")
    ELSE pc' = "MkdirAll" /\ ret' = ret

\* EnsureWritten, lines 149-159, after writeRequired returned r.
AfterWriteRequired(r) ==
    IF r.err # "nil" THEN Return(r.err)
    ELSE IF ~r.reqd THEN Return("nil")
    ELSE pc' = "MkdirAll" /\ ret' = ret

ReadFile_ok ==
    /\ pc = "writeRequired"
    /\ fs[path].exists
    /\ AfterWriteRequired(writeRequired("nil", fs[path].data, buf))
    /\ UNCHANGED <<xvars, hvars, pkgs, dirs, fs, args, buf, faults, seen, calls, h>>

ReadFile_notExist ==
    /\ pc = "writeRequired"
    /\ ~fs[path].exists
    /\ AfterWriteRequired(writeRequired("notexist", <<>>, buf))
    /\ UNCHANGED <<xvars, hvars, pkgs, dirs, fs, args, buf, faults, seen, calls, h>>

ReadFile_fail ==
    /\ pc = "writeRequired"
    /\ faults < MaxFaults
    /\ faults' = faults + 1
    /\ h' = [h EXCEPT !.failed = @ \cup {"read"}]
    /\ AfterWriteRequired(writeRequired("other", <<>>, buf))
    /\ UNCHANGED <<xvars, hvars, pkgs, dirs, fs, args, buf, seen, calls>>

\* os.MkdirAll(filepath.Dir(path), 0755), lines 161-163.
MkdirAll_ok ==
    /\ pc = "MkdirAll"
    /\ dirs' = dirs \cup {path.dir}
    /\ h' = [h EXCEPT !.mkdir = TRUE]
    /\ pc' = "OpenFile"
    /\ UNCHANGED <<xvars, hvars, pkgs, fs, args, buf, ret, faults, seen, calls>>

MkdirAll_fail ==
    /\ pc = "MkdirAll"
    /\ faults < MaxFaults
    /\ faults' = faults + 1
    /\ h' = [h EXCEPT !.mkdir = TRUE, !.failed = @ \cup {"mkdir"}]
    /\ Return("err")
    /\ UNCHANGED <<xvars, hvars, pkgs, dirs, fs, args, buf, seen, calls>>

\* ioutil.WriteFile(path, buf.Bytes(), 0644), lines 165-167:
\* os.OpenFile(O_WRONLY|O_CREATE|O_TRUNC), then f.Write, then f.Close.
OpenFile_ok ==
    /\ pc = "OpenFile"
    /\ path.dir \in dirs
    /\ fs' = [fs EXCEPT ![path] = File(<<>>)]
    /\ h' = [h EXCEPT !.wrote = TRUE]
    /\ pc' = "Write"
    /\ UNCHANGED <<xvars, hvars, pkgs, dirs, args, buf, ret, faults, seen, calls>>

OpenFile_fail ==
    /\ pc = "OpenFile"
    /\ faults < MaxFaults
    /\ faults' = faults + 1
    /\ h' = [h EXCEPT !.wrote = TRUE, !.failed = @ \cup {"write"}]
    /\ Return("err")
    /\ UNCHANGED <<xvars, hvars, pkgs, dirs, fs, args, buf, seen, calls>>

Write_ok ==
    /\ pc = "Write"
    /\ fs' = [fs EXCEPT ![path] = File(buf)]
    /\ Return("nil")
    /\ UNCHANGED <<xvars, hvars, pkgs, dirs, args, buf, faults, seen, calls, h>>

\* A failed or short f.Write leaves the first n lines (n up to MaxShort is
\* enough to tell a partial file from a complete one); a failed f.Close
\* leaves all of them.
Write_fail ==
    /\ pc = "Write"
    /\ faults < MaxFaults
    /\ faults' = faults + 1
    /\ \E n \in (0..MaxShort) \cup {Len(buf)} :
         fs' = [fs EXCEPT ![path] = File(SubSeq(buf, 1, n))]
    /\ h' = [h EXCEPT !.failed = @ \cup {"write"}]
    /\ Return("err")
    /\ UNCHANGED <<xvars, hvars, pkgs, dirs, args, buf, seen, calls>>

\* Somebody other than EnsureWritten replaces or removes a generated file
\* between two calls.
ExternalChange ==
    /\ pc = "idle"
    /\ ret # "none"
    /\ ~h.touched
    /\ \E p \in AllPaths, f \in {NoFile, File(Junk)} :
        /\ fs[p] # f
        /\ f.exists => p.dir \in dirs
        /\ fs' = [fs EXCEPT ![p] = f]
    /\ h' = [h EXCEPT !.touched = TRUE]
    /\ UNCHANGED <<xvars, hvars, pkgs, dirs, pc, args, buf, ret, faults, seen, calls>>

\* A concurrent reader (a compiler, an editor) reads the generated file.
Reader_read ==
    /\ pc # "idle"
    /\ seen' = fs[path]
    /\ UNCHANGED <<xvars, hvars, pkgs, dirs, fs, pc, args, buf, ret, faults, calls, h>>

Next ==
    \/ EnsureWritten_begin
    \/ ReadFile_ok
    \/ ReadFile_notExist
    \/ ReadFile_fail
    \/ MkdirAll_ok
    \/ MkdirAll_fail
    \/ OpenFile_ok
    \/ OpenFile_fail
    \/ Write_ok
    \/ Write_fail
    \/ ExternalChange
    \/ Reader_read

Spec == Init /\ [][Next]_vars

\* ------------------------------------------------- the generator on its own
InitGen ==
    /\ pkgs \in PkgLists
    /\ dirs = {}
    /\ fs = [p \in AllPaths |-> NoFile]
    /\ InitCommon
    /\ InitNoHash
    /\ InitNoLoad
    /\ InitNoDisc
    /\ InitNoCfg
    /\ InitNoCmd

\* One run of write(pkgs, isLoader, &buf), lines 79-119.
write_once ==
    /\ calls = 0
    /\ calls' = 1
    /\ \E isLoader \in BOOLEAN, ordB \in Orders(pkgs), ordP \in Orders(pkgs) :
        \E keyOrd \in Perms(DOMAIN buildStageMap(pkgs, ordB)) :
          /\ buf' = write(pkgs, isLoader, ordB, ordP, keyOrd)
          /\ args' = [args EXCEPT !.isLoader = isLoader]
    /\ UNCHANGED <<xvars, hvars, pkgs, dirs, fs, pc, ret, faults, seen, h>>

NextGen == write_once

SpecGen == InitGen /\ [][NextGen]_vars

\* Repeated runs of write on the same package list.
write_run ==
    /\ calls < MaxCalls
    /\ calls' = calls + 1
    /\ \E isLoader \in BOOLEAN, ordB \in Orders(pkgs), ordP \in Orders(pkgs) :
        \E keyOrd \in Perms(DOMAIN buildStageMap(pkgs, ordB)) :
          /\ buf' = write(pkgs, isLoader, ordB, ordP, keyOrd)
          /\ args' = [args EXCEPT !.isLoader = isLoader]
    /\ h' = [h EXCEPT !.prevValid = calls > 0, !.prevArgs = args, !.prevBuf = buf]
    /\ UNCHANGED <<xvars, hvars, pkgs, dirs, fs, pc, ret, faults, seen>>

NextRerun == write_run

SpecRerun == InitGen /\ [][NextRerun]_vars

\* ------------------------------------------------------------ package hash
\* File names and file contents are sequences of one-character strings, so
\* that what hash.Write receives is the concatenation of such sequences.
ObjName == <<"o", "b", "j">>
BinName == <<"b", "i", "n">>
DotName == <<".">>
PackageHashIgnoreDirs == {ObjName, BinName, DotName}

\* Names of directory entries, listed in the ascending order in which
\* filepath.Walk visits them (it sorts the names of a directory).
HNames == << <<"a">>, ObjName, <<"z">> >>
SubNames == << <<"a">>, ObjName >>
RootNames == { <<"p", "k", "g">>, ObjName }
Datas == { <<"x">>, <<"y">> }

NoEnt == [kind |-> "none", data |-> <<>>, ok |-> TRUE]
DirEnt == [kind |-> "dir", data |-> <<>>, ok |-> TRUE]
FileEnts == {[kind |-> "file", data |-> d, ok |-> TRUE] : d \in Datas}
              \cup {[kind |-> "file", data |-> <<>>, ok |-> FALSE]}

\* What may exist at the top-level name n: nothing, a file, or a directory
\* of files.
TopOpts(n) ==
    {(<<n>> :> e) @@ [q \in {<<n, SubNames[i]>> : i \in 1..Len(SubNames)} |-> NoEnt] :
        e \in {NoEnt} \cup FileEnts}
    \cup {(<<n>> :> DirEnt) @@ sub :
        sub \in [{<<n, SubNames[i]>> : i \in 1..Len(SubNames)} -> {NoEnt} \cup FileEnts]}

Trees ==
    {[root |-> r, ent |-> x @@ y @@ z] :
        r \in RootNames, x \in TopOpts(HNames[1]), y \in TopOpts(HNames[2]),
        z \in TopOpts(HNames[3])}

Present(t, q) == q \in DOMAIN t.ent /\ t.ent[q].kind # "none"
InfoOf(t, q) == IF q = <<>> THEN DirEnt ELSE t.ent[q]
NameOf(t, q) == IF q = <<>> THEN t.root ELSE q[Len(q)]

\* readDirNames: the names in directory q, sorted.
ReadDir(t, q) == SelectSeq(HNames, LAMBDA n : Present(t, Append(q, n)))

\* The function literal passed to filepath.Walk, lines 124-142; acc is what
\* hash.Write has received so far.
HashWalkFn(name, info, acc) ==
    IF name \in PackageHashIgnoreDirs THEN [in |-> acc, err |-> "SkipDir"]
    ELSE IF info.kind = "dir" THEN [in |-> acc \o name, err |-> "nil"]
    ELSE IF ~info.ok THEN [in |-> acc, err |-> "err"]
    ELSE [in |-> acc \o info.data, err |-> "nil"]

\* filepath.Walk: walkFn on the node, then on the entries of a directory in
\* sorted order.  SkipDir from a directory skips that directory; SkipDir from
\* a file ends the walk of the directory that holds the file.
RECURSIVE walk(_, _, _)
RECURSIVE walkNames(_, _, _, _)
walk(t, q, acc) ==
    LET info == InfoOf(t, q)
        r == HashWalkFn(NameOf(t, q), info, acc)
    IN IF r.err # "nil"
       THEN IF info.kind = "dir" /\ r.err = "SkipDir" THEN [in |-> r.in, err |-> "nil"] ELSE r
       ELSE IF info.kind # "dir" THEN r
       ELSE walkNames(t, q, ReadDir(t, q), r.in)

walkNames(t, q, names, acc) ==
    IF names = <<>> THEN [in |-> acc, err |-> "nil"]
    ELSE LET k == Append(q, Head(names))
             r == walk(t, k, acc)
         IN IF r.err # "nil" /\ (InfoOf(t, k).kind # "dir" \/ r.err # "SkipDir")
            THEN r
            ELSE walkNames(t, q, Tail(names), r.in)

\* LocalPackage.Hash.  The SHA-1 sum is kept as the byte sequence it was
\* computed from (input), which is what decides whether two sums are equal.
Hash(t) ==
    LET r == walk(t, <<>>, <<>>)
    IN IF r.err # "nil" /\ r.err # "SkipDir"
       THEN [done |-> TRUE, input |-> <<>>, err |-> "err"]
       ELSE [done |-> TRUE, input |-> r.in, err |-> "nil"]

InitHash ==
    /\ pkgs = <<>>
    /\ dirs = {}
    /\ fs = [p \in AllPaths |-> NoFile]
    /\ InitCommon
    /\ tree \in Trees
    /\ hres = NoRes
    /\ ptree = NoTree
    /\ phres = NoRes
    /\ edits = 0
    /\ edit = NoEdit
    /\ InitNoLoad
    /\ InitNoDisc
    /\ InitNoCfg
    /\ InitNoCmd

Hash_call ==
    /\ ~hres.done
    /\ hres' = Hash(tree)
    /\ UNCHANGED <<xvars, wvars, tree, ptree, phres, edits, edit>>

\* Somebody renames one file of the tree; the file keeps its contents and
\* its place in the order of the walk.
RenameFile ==
    /\ hres.done
    /\ edits < MaxEdits
    /\ \E q \in DOMAIN tree.ent, n \in {HNames[i] : i \in 1..Len(HNames)} :
        LET dir == SubSeq(q, 1, Len(q) - 1)
            k == Append(dir, n)
            t2 == [tree EXCEPT !.ent[q] = NoEnt, !.ent[k] = tree.ent[q]]
        IN /\ tree.ent[q].kind = "file"
           /\ k \in DOMAIN tree.ent
           /\ ~Present(tree, k)
           /\ \A i \in 1..Len(ReadDir(tree, dir)) :
                (ReadDir(tree, dir)[i] = q[Len(q)]) = (ReadDir(t2, dir)[i] = n)
           /\ tree' = t2
           /\ edit' = [kind |-> "rename", q |-> q]
    /\ ptree' = tree
    /\ phres' = hres
    /\ hres' = NoRes
    /\ edits' = edits + 1
    /\ UNCHANGED <<xvars, wvars>>

\* Somebody changes the contents of one regular file of the tree.
ChangeFile ==
    /\ hres.done
    /\ edits < MaxEdits
    /\ \E q \in DOMAIN tree.ent, d \in Datas :
        /\ tree.ent[q].kind = "file"
        /\ tree.ent[q].ok
        /\ d # tree.ent[q].data
        /\ tree' = [tree EXCEPT !.ent[q].data = d]
        /\ edit' = [kind |-> "change", q |-> q]
    /\ ptree' = tree
    /\ phres' = hres
    /\ hres' = NoRes
    /\ edits' = edits + 1
    /\ UNCHANGED <<xvars, wvars>>

NextHash == Hash_call \/ RenameFile \/ ChangeFile

SpecHash == InitHash /\ [][NextHash]_vars

\* ------------------------------------------------------------ package load
\* PackageTypeNames: package type -> the name pkg.type carries for it.
PackageTypeNames ==
    [t \in {"PACKAGE_TYPE_LIB", "PACKAGE_TYPE_BSP", "PACKAGE_TYPE_APP"} |->
        CASE t = "PACKAGE_TYPE_LIB" -> <<"l", "i", "b">>
          [] t = "PACKAGE_TYPE_BSP" -> <<"b", "s", "p">>
          [] t = "PACKAGE_TYPE_APP" -> <<"a", "p", "p">>]

\* The orders in which "range PackageTypeNames" may yield the map's keys.
TypeOrders == Perms(DOMAIN PackageTypeNames)

\* Values of pkg.type in a descriptor: the known names, the empty string
\* (key absent) and strings that are no type name.
TypeStrings ==
    {PackageTypeNames[t] : t \in DOMAIN PackageTypeNames}
        \cup {<<>>, <<"l", "i">>, <<"L", "i", "b">>, <<"l", "i", "b", "s">>}
DescNames == {"p", "q", "r"}

Descs ==
    [present : {TRUE}, readOk : BOOLEAN, name : DescNames, type : TypeStrings,
     versOk : BOOLEAN]

\* The loop of Load, lines 245-251, over the keys in the order ord.
RECURSIVE typeLoop(_, _, _)
typeLoop_first(typeString, ord, cur) ==
    IF ord = <<>> THEN cur ELSE Head(ord)

typeLoop(typeString, ord, cur) ==
    IF ord = <<>> THEN cur
    ELSE IF typeString = PackageTypeNames[Head(ord)] THEN Head(ord)
    ELSE typeLoop(typeString, Tail(ord), cur)

\* LocalPackage.Load, lines 230-266: d is the descriptor file, readOk whether
\* util.ReadConfig succeeds, versOk whether LoadVersion accepts pkg.vers.
Load(d, ord) ==
    IF ~d.readOk
    THEN [done |-> TRUE, name |-> "", packageType |-> "none", err |-> "err"]
    ELSE [done |-> TRUE, name |-> d.name,
          packageType |-> typeLoop(d.type, ord, "PACKAGE_TYPE_LIB"),
          err |-> IF d.versOk THEN "nil" ELSE "err"]

InitLoad ==
    /\ pkgs = <<>>
    /\ dirs = {}
    /\ fs = [p \in AllPaths |-> NoFile]
    /\ InitCommon
    /\ InitNoHash
    /\ InitNoDisc
    /\ InitNoCfg
    /\ InitNoCmd
    /\ lcfg \in Descs
    /\ lres = NoLoad

Load_call ==
    /\ ~lres.done
    /\ \E ord \in TypeOrders : lres' = Load(lcfg, ord)
    /\ UNCHANGED <<wvars, hvars, dvars, svars, cvars, lcfg>>

NextLoad == Load_call

SpecLoad == InitLoad /\ [][NextLoad]_vars

\* ------------------------------------------------------------ package discovery
LocalPackageSpecialNames ==
    {<<"s", "r", "c">>, <<"i", "n", "c", "l", "u", "d", "e">>, <<"b", "i", "n">>}
LocalPackageSpecialName(dirName) == dirName \in LocalPackageSpecialNames

\* strings.HasPrefix / filepath.HasPrefix on names without separators.
HasPrefix(name, pre) == Len(name) >= Len(pre) /\ SubSeq(name, 1, Len(pre)) = pre

\* Names of directory entries in the order ioutil.ReadDir returns them
\* (sorted by file name): below the search path, and one level further down.
DNames == << <<".", "h">>, <<"a">>, <<"b">>, <<"s", "r", "c">> >>
DSubNames == << <<".", "h">>, <<"b">>, <<"c">>, <<"s", "r", "c">> >>

NoNode == [kind |-> "none", desc |-> NoDesc]
FileNode == [kind |-> "file", desc |-> NoDesc]
DirNode(d) == [kind |-> "dir", desc |-> d]
Desc(n, vok) ==
    [present |-> TRUE, readOk |-> TRUE, name |-> n, type |-> <<"l", "i", "b">>, versOk |-> vok]

\* The entries of a directory n below the search path, each drawn from the
\* set given for its name.
DSub(n, hs, bs, cs, ss) ==
    {(<<n, DSubNames[1]>> :> x) @@ (<<n, DSubNames[2]>> :> y)
        @@ (<<n, DSubNames[3]>> :> c) @@ (<<n, DSubNames[4]>> :> z) :
        x \in hs, y \in bs, c \in cs, z \in ss}
DNone(n) == [k \in {<<n, DSubNames[i]>> : i \in 1..Len(DSubNames)} |-> NoNode]
DEmpty(n) == {DNone(n)}

\* What may exist at the name n below the search path: nothing, a file, or
\* a directory, with or without a descriptor, the descriptor good or bad.
DTopOpts(n) ==
    CASE n = DNames[1] ->
            {(<<n>> :> e) @@ sub : e \in {NoNode, DirNode(Desc("p", TRUE))}, sub \in DEmpty(n)}
      [] n = DNames[2] ->
            {(<<n>> :> e) @@ sub : e \in {NoNode, FileNode}, sub \in DEmpty(n)}
            \cup {(<<n>> :> DirNode(d)) @@ sub :
                    d \in {NoDesc, Desc("p", TRUE), Desc("p", FALSE)},
                    sub \in DSub(n, {NoNode, DirNode(Desc("q", TRUE))},
                                    {NoNode, FileNode, DirNode(Desc("p", TRUE)),
                                     DirNode(Desc("q", TRUE))},
                                    {NoNode, DirNode(Desc("r", TRUE))},
                                    {NoNode, DirNode(Desc("q", TRUE))})}
      [] n = DNames[3] ->
            {(<<n>> :> e) @@ sub : e \in {NoNode, DirNode(Desc("q", TRUE))}, sub \in DEmpty(n)}
      [] n = DNames[4] ->
            {(<<n>> :> NoNode) @@ sub : sub \in DEmpty(n)}
            \cup {(<<n>> :> DirNode(d)) @@ sub :
                    d \in {NoDesc, Desc("p", TRUE)},
                    sub \in DSub(n, {NoNode}, {NoNode, DirNode(Desc("q", TRUE))},
                                    {NoNode}, {NoNode})}

DTrees ==
    {[exists |-> TRUE, ent |-> w @@ x @@ y @@ z] :
        w \in DTopOpts(DNames[1]), x \in DTopOpts(DNames[2]),
        y \in DTopOpts(DNames[3]), z \in DTopOpts(DNames[4])}
    \cup {[exists |-> FALSE,
           ent |-> [k \in {<<DNames[i]>> : i \in 1..Len(DNames)} |-> NoNode]
                   @@ DNone(DNames[1]) @@ DNone(DNames[2]) @@ DNone(DNames[3])
                   @@ DNone(DNames[4])]}

\* ioutil.ReadDir of the directory q: the names of its entries, sorted.
DReadDir(t, q) ==
    SelectSeq(IF q = <<>> THEN DNames ELSE DSubNames,
              LAMBDA n : Append(q, n) \in DOMAIN t.ent /\ t.ent[Append(q, n)].kind # "none")

\* LoadLocalPackage, lines 268-273.
LoadLocalPackage(t, q, ord) == Load(t.ent[q].desc, ord)

\* ReadLocalPackageRecursive, lines 280-315, on the directory q.  acc holds
\* pkgList and, for the properties, the directories entered and loaded.
RECURSIVE ReadLocalPackageRecursive(_, _, _, _)
RECURSIVE dirListLoop(_, _, _, _, _)
loadIfPackage(t, q, ord, acc) ==
    IF ~t.ent[q].desc.present THEN acc
    ELSE LET pkg == LoadLocalPackage(t, q, ord)
         IN IF pkg.err # "nil"
            THEN [acc EXCEPT !.err = "err", !.loaded = @ \cup {q}]
            ELSE [acc EXCEPT !.loaded = @ \cup {q},
                             !.pkgList = (pkg.name :> q) @@ @]

dirListLoop(t, q, names, ord, acc) ==
    IF names = <<>> THEN acc
    ELSE LET name == Head(names)
             k == Append(q, name)
         IN IF t.ent[k].kind # "dir"
            THEN dirListLoop(t, q, Tail(names), ord, acc)
            ELSE IF LocalPackageSpecialName(name) \/ HasPrefix(name, <<".">>)
            THEN dirListLoop(t, q, Tail(names), ord, acc)
            ELSE LET r == ReadLocalPackageRecursive(t, k, ord, acc)
                 IN IF r.err # "nil" THEN r
                    ELSE dirListLoop(t, q, Tail(names), ord, r)

ReadLocalPackageRecursive_boundary(t, q, ord, acc) ==
    LET a == [acc EXCEPT !.entered = @ \cup {q}]
    IN IF t.ent[q].desc.present THEN loadIfPackage(t, q, ord, a)
       ELSE dirListLoop(t, q, DReadDir(t, q), ord, a)

ReadLocalPackageRecursive(t, q, ord, acc) ==
    LET r == dirListLoop(t, q, DReadDir(t, q), ord, [acc EXCEPT !.entered = @ \cup {q}])
    IN IF r.err # "nil" THEN r ELSE loadIfPackage(t, q, ord, r)

\* The loop of ReadLocalPackages over the entries of the search path,
\* lines 333-346.
RECURSIVE subDirLoop(_, _, _, _)
subDirLoop(t, names, ord, acc) ==
    IF names = <<>> THEN acc
    ELSE LET name == Head(names)
         IN IF HasPrefix(name, <<".">>) \/ HasPrefix(name, <<".", ".">>)
            THEN subDirLoop(t, Tail(names), ord, acc)
            ELSE IF t.ent[<<name>>].kind # "dir"
            THEN subDirLoop(t, Tail(names), ord, acc)
            ELSE LET r == ReadLocalPackageRecursive(t, <<name>>, ord, acc)
                 IN IF r.err # "nil" THEN r
                    ELSE subDirLoop(t, Tail(names), ord, r)

\* ReadLocalPackages, lines 317-352, with one search path.
ReadLocalPackages(t, ord) ==
    LET start == [done |-> TRUE, err |-> "nil", pkgList |-> <<>>, entered |-> {}, loaded |-> {}]
    IN IF ~t.exists THEN start
       ELSE LET r == subDirLoop(t, DReadDir(t, <<>>), ord, start)
            IN IF r.err # "nil" THEN [r EXCEPT !.pkgList = <<>>] ELSE r

InitDisc ==
    /\ pkgs = <<>>
    /\ dirs = {}
    /\ fs = [p \in AllPaths |-> NoFile]
    /\ InitCommon
    /\ InitNoHash
    /\ InitNoLoad
    /\ InitNoCfg
    /\ InitNoCmd
    /\ dtree \in DTrees
    /\ dres = NoDisc

ReadLocalPackages_call ==
    /\ ~dres.done
    /\ \E ord \in TypeOrders : dres' = ReadLocalPackages(dtree, ord)
    /\ UNCHANGED <<wvars, hvars, lvars, svars, cvars, dtree>>

NextDisc == ReadLocalPackages_call

SpecDisc == InitDisc /\ [][NextDisc]_vars

\* ------------------------------------------------------------ configuration listing
\* Strings in ascending byte order, the order sort.Strings produces.
StrOrder == <<"A", "B", "C", "a", "b", "c">>
StrRank(x) == CHOOSE i \in 1..Len(StrOrder) : StrOrder[i] = x

SettingNames == <<"A", "B", "C">>
CfgPkgs == {"a", "b"}
CfgValues == {"0", "1"}

\* A CfgEntry: History[1] is the default, given by the package the setting
\* comes from; a later History entry is an override, whose value is then the
\* effective one.
CfgEntry(name, p, v, over) ==
    [Name |-> name, Description |-> "d",
     Value |-> IF over THEN "2" ELSE v,
     History |-> IF over
                 THEN <<[Source |-> p, Value |-> v], [Source |-> "c", Value |-> "2"]>>
                 ELSE <<[Source |-> p, Value |-> v]>>]

CfgEntries(name) == {CfgEntry(name, p, v, over) : p \in CfgPkgs, v \in CfgValues, over \in BOOLEAN}

Cfgs ==
    UNION {{[Settings |-> st, errText |-> e] :
              st \in {f \in [S -> UNION {CfgEntries(n) : n \in S}] :
                         \A n \in S : f[n].Name = n},
              e \in {"", "e"}} :
           S \in SUBSET {SettingNames[i] : i \in 1..Len(SettingNames)}}

\* syscfg.EntriesByPkg: package name -> the entries that come from it, each
\* slice in the order eord gives for the package.
PkgOf(entry) == entry.History[1].Source
EntryPkgs(cfg) == {PkgOf(cfg.Settings[n]) : n \in DOMAIN cfg.Settings}
EntryNamesOf(cfg, p) == {n \in DOMAIN cfg.Settings : PkgOf(cfg.Settings[n]) = p}
EntryOrders(cfg) ==
    {o \in [EntryPkgs(cfg) -> UNION {Perms(S) : S \in SUBSET DOMAIN cfg.Settings}] :
        \A p \in EntryPkgs(cfg) : o[p] \in Perms(EntryNamesOf(cfg, p))}
EntriesByPkg(cfg, eord) ==
    [p \in EntryPkgs(cfg) |-> [i \in 1..Len(eord[p]) |-> cfg.Settings[eord[p][i]]]]

\* sort.Strings.
RECURSIVE insertString(_, _)
insertString(sorted, x) ==
    IF sorted = <<>> THEN <<x>>
    ELSE IF StrRank(x) < StrRank(Head(sorted)) THEN <<x>> \o sorted
    ELSE <<Head(sorted)>> \o insertString(Tail(sorted), x)

RECURSIVE sortStrings(_)
sortStrings_none(names) == names

sortStrings(names) ==
    IF names = <<>> THEN <<>>
    ELSE insertString(sortStrings(SubSeq(names, 1, Len(names) - 1)), names[Len(names)])

\* One piece of output: the format string and the values put into it.
Out(k, a, b) == [k |-> k, a |-> a, b |-> b]

RECURSIVE catAll(_)
catAll(ss) == IF ss = <<>> THEN <<>> ELSE Head(ss) \o catAll(Tail(ss))

\* printSetting, lines 356-378.
printSetting(entry) ==
    << Out("  * Setting: %s\n", entry.Name, ""),
       Out("    * Description: %s\n", entry.Description, ""),
       Out("    * Value: %s", entry.Value, ""),
       Out("\n", "", "") >>
    \o (IF Len(entry.History) > 1
        THEN <<Out("    * Overridden: ", "", "")>>
             \o [i \in 1..(Len(entry.History) - 1) |->
                    Out("%s, ", entry.History[i + 1].Source, "")]
             \o <<Out("default=%s\n", entry.History[1].Value, "")>>
        ELSE <<>>)

\* printPkgCfg, lines 380-392.
printPkgCfg(pkgName, cfg, entries) ==
    LET settingNames == sortStrings([i \in 1..Len(entries) |-> entries[i].Name])
    IN <<Out("* PACKAGE: %s\n", pkgName, "")>>
       \o catAll([i \in 1..Len(settingNames) |-> printSetting(cfg.Settings[settingNames[i]])])

\* cfg.ErrorText() and the message printCfg and yamlCfg print for it.
errorLines(cfg) ==
    IF cfg.errText # "" THEN <<Out("!!! %s\n\n", cfg.errText, "")>> ELSE <<>>

\* printCfg, lines 394-414; kord is the order in which the range over
\* pkgNameEntryMap yields its keys.
printCfg(targetName, cfg, eord, kord) ==
    LET pkgNameEntryMap == EntriesByPkg(cfg, eord)
        pkgNames == sortStrings(kord)
    IN errorLines(cfg)
       \o <<Out("Syscfg for %s:\n", targetName, "")>>
       \o catAll([i \in 1..Len(pkgNames) |->
              (IF i > 1 THEN <<Out("\n", "", "")>> ELSE <<>>)
              \o printPkgCfg(pkgNames[i], cfg, pkgNameEntryMap[pkgNames[i]])])

\* yamlPkgCfg, lines 416-429.
yamlPkgCfg(pkgName, cfg, entries) ==
    LET settingNames == sortStrings([i \in 1..Len(entries) |-> entries[i].Name])
    IN <<Out("    ### %s\n", pkgName, "")>>
       \o [i \in 1..Len(settingNames) |->
              Out("    %s: '%s'\n", settingNames[i], cfg.Settings[settingNames[i]].Value)]

\* yamlCfg, lines 431-455: the string it returns.
yamlCfg(cfg, eord, kord) ==
    LET pkgNameEntryMap == EntriesByPkg(cfg, eord)
        pkgNames == sortStrings(kord)
    IN <<Out("syscfg.vals:\n", "", "")>>
       \o catAll([i \in 1..Len(pkgNames) |->
              (IF i > 1 THEN <<Out("\n", "", "")>> ELSE <<>>)
              \o yamlPkgCfg(pkgNames[i], cfg, pkgNameEntryMap[pkgNames[i]])])

InitCfg ==
    /\ pkgs = <<>>
    /\ dirs = {}
    /\ fs = [p \in AllPaths |-> NoFile]
    /\ InitCommon
    /\ InitNoHash
    /\ InitNoLoad
    /\ InitNoDisc
    /\ InitNoCmd
    /\ scfg \in Cfgs
    /\ sout = NoOut

printCfg_call ==
    /\ ~sout.done
    /\ \E eord \in EntryOrders(scfg), kord \in Perms(EntryPkgs(scfg)) :
        sout' = [done |-> TRUE, op |-> "printCfg",
                 status |-> printCfg("t", scfg, eord, kord), ret |-> <<>>,
                 keys |-> kord, ents |-> eord]
    /\ UNCHANGED <<wvars, hvars, lvars, dvars, cvars, scfg>>

yamlCfg_call ==
    /\ ~sout.done
    /\ \E eord \in EntryOrders(scfg), kord \in Perms(EntryPkgs(scfg)) :
        sout' = [done |-> TRUE, op |-> "yamlCfg",
                 status |-> errorLines(scfg), ret |-> yamlCfg(scfg, eord, kord),
                 keys |-> kord, ents |-> eord]
    /\ UNCHANGED <<wvars, hvars, lvars, dvars, cvars, scfg>>

NextCfg == printCfg_call \/ yamlCfg_call

SpecCfg == InitCfg /\ [][NextCfg]_vars

\* ------------------------------------------------------------ target commands
\* The commands modelled: target config show, target config init, target
\* dep, target revdep, target delete.
Cmds == {"show", "init", "dep", "revdep", "delete"}

\* Command lines.  --force is registered for delete and config init only;
\* dep and revdep take one target, then package names (filter).
CmdLines ==
    {c \in [cmd : Cmds, force : BOOLEAN, n : 0..MaxTargets, filter : BOOLEAN] :
        /\ c.force => c.cmd \in {"init", "delete"}
        /\ c.filter => (c.cmd \in {"dep", "revdep"} /\ c.n = 1)
        /\ c.cmd \in {"dep", "revdep"} => c.n <= 1}

At(a, i) == [at |-> a, i |-> i, anyExist |-> FALSE]
Stage(i, stage, res) == [i |-> i, stage |-> stage, res |-> res]
Res(ok) == IF ok THEN "ok" ELSE "err"

\* NewtUsage prints the error and ends the process.
NewtUsage == At("exit", cpc.i)

\* After target i: the next target, or the end of the command.
NextTarget(a) == IF cpc.i < cin.n THEN At(a, cpc.i + 1) ELSE At("done", cpc.i)

cother == <<wvars, hvars, lvars, dvars, svars>>

InitCmd ==
    /\ pkgs = <<>>
    /\ dirs = {}
    /\ fs = [p \in AllPaths |-> NoFile]
    /\ InitCommon
    /\ InitNoHash
    /\ InitNoLoad
    /\ InitNoDisc
    /\ InitNoCfg
    /\ cin \in CmdLines
    /\ cpc = At("start", 0)
    /\ NewtForce = FALSE
    /\ targetForce = FALSE
    /\ clog = <<>>

\* The flags are parsed into the variables they were registered with
\* (AddTargetCommands, lines 721-723 and 773-775), then the handler runs.
ParseFlags ==
    /\ cpc.at = "start"
    /\ NewtForce' = cin.force
    /\ cpc' = At("args", 1)
    /\ UNCHANGED <<cother, cin, targetForce, clog>>

\* The check of len(args) that opens every handler.
CheckArgs ==
    /\ cpc.at = "args"
    /\ cpc' = IF cin.n < 1 THEN NewtUsage ELSE At(cin.cmd, 1)
    /\ UNCHANGED <<cother, cin, NewtForce, targetForce, clog>>

\* targetBuilderConfigResolve, lines 457-471, for target i; ok is whether
\* b.Resolve() succeeds, next where the caller goes on.
targetBuilderConfigResolve_goesOn(i, ok, next) ==
    /\ clog' = clog \o <<Stage(i, "Resolve", Res(ok)), Stage(i, "WarningText", "ok")>>
    /\ cpc' = At(next, i)

targetBuilderConfigResolve(i, ok, next) ==
    IF ok
    THEN /\ clog' = clog \o <<Stage(i, "Resolve", "ok"), Stage(i, "WarningText", "ok")>>
         /\ cpc' = At(next, i)
    ELSE /\ clog' = Append(clog, Stage(i, "Resolve", "err"))
         /\ cpc' = NewtUsage

\* targetConfigShowCmd, lines 473-488: the builder and the resolution of
\* one argument, then printCfg.
targetConfigShowCmd_resolve ==
    /\ cpc.at = "show"
    /\ \E found \in BOOLEAN, ok \in BOOLEAN :
        IF ~found
        THEN /\ clog' = Append(clog, Stage(cpc.i, "TargetBuilder", "err"))
             /\ cpc' = NewtUsage
        ELSE targetBuilderConfigResolve(cpc.i, ok, "show_print")
    /\ UNCHANGED <<cother, cin, NewtForce, targetForce>>

targetConfigShowCmd_printCfg ==
    /\ cpc.at = "show_print"
    /\ clog' = Append(clog, Stage(cpc.i, "printCfg", "ok"))
    /\ cpc' = NextTarget("show")
    /\ UNCHANGED <<cother, cin, NewtForce, targetForce>>

\* targetConfigInitCmd, lines 490-554.  First loop: a builder for every
\* argument, and whether its syscfg file exists.
targetConfigInitCmd_entries ==
    /\ cpc.at = "init"
    /\ \E found \in BOOLEAN, anyExist \in BOOLEAN :
        IF ~found
        THEN /\ clog' = Append(clog, Stage(cpc.i, "TargetBuilder", "err"))
             /\ cpc' = NewtUsage
        ELSE /\ clog' = clog
             /\ cpc' = [At("init_prompt", 1) EXCEPT !.anyExist = anyExist]
    /\ UNCHANGED <<cother, cin, NewtForce, targetForce>>

\* Lines 527-543: the question whether to overwrite.
targetConfigInitCmd_prompt ==
    /\ cpc.at = "init_prompt"
    /\ IF cpc.anyExist /\ ~targetForce
       THEN \E rsp \in BOOLEAN :
              /\ clog' = Append(clog, Stage(0, "PromptYesNo", IF rsp THEN "yes" ELSE "no"))
              /\ cpc' = IF rsp THEN At("init_resolve", 1) ELSE At("done", 1)
       ELSE /\ clog' = clog
            /\ cpc' = At("init_resolve", 1)
    /\ UNCHANGED <<cother, cin, NewtForce, targetForce>>

\* Lines 545-553: resolve, yamlCfg, WriteFile for every entry.
targetConfigInitCmd_resolve ==
    /\ cpc.at = "init_resolve"
    /\ \E ok \in BOOLEAN : targetBuilderConfigResolve(cpc.i, ok, "init_yaml")
    /\ UNCHANGED <<cother, cin, NewtForce, targetForce>>

targetConfigInitCmd_yamlCfg ==
    /\ cpc.at = "init_yaml"
    /\ clog' = Append(clog, Stage(cpc.i, "yamlCfg", "ok"))
    /\ cpc' = At("init_write", cpc.i)
    /\ UNCHANGED <<cother, cin, NewtForce, targetForce>>

targetConfigInitCmd_WriteFile ==
    /\ cpc.at = "init_write"
    /\ \E ok \in BOOLEAN :
        /\ clog' = Append(clog, Stage(cpc.i, "WriteFile", Res(ok)))
        /\ cpc' = IF ok THEN NextTarget("init_resolve") ELSE NewtUsage
    /\ UNCHANGED <<cother, cin, NewtForce, targetForce>>

\* targetDepCmd, lines 556-599, and targetRevdepCmd, lines 601-643, which
\* differ in the graph they build and print: c is the command, graph and
\* text the names of its two functions.
graphCmd_resolve(c) ==
    /\ cpc.at = c
    /\ \E found \in BOOLEAN, ok \in BOOLEAN :
        IF ~found
        THEN /\ clog' = Append(clog, Stage(1, "TargetBuilder", "err"))
             /\ cpc' = NewtUsage
        ELSE /\ clog' = Append(clog, Stage(1, "Resolve", Res(ok)))
             /\ cpc' = IF ok THEN At("graph", 1) ELSE NewtUsage
    /\ UNCHANGED <<cother, cin, NewtForce, targetForce>>

graphCmd_graph(c, graph) ==
    /\ cpc.at = "graph"
    /\ cin.cmd = c
    /\ \E ok \in BOOLEAN :
        /\ clog' = Append(clog, Stage(1, graph, Res(ok)))
        /\ cpc' = IF ~ok THEN NewtUsage
                  ELSE IF cin.filter THEN At("filter", 1) ELSE At("text", 1)
    /\ UNCHANGED <<cother, cin, NewtForce, targetForce>>

graphCmd_filter(c) ==
    /\ cpc.at = "filter"
    /\ cin.cmd = c
    /\ \E ok \in BOOLEAN :
        IF ok
        THEN /\ clog' = clog \o <<Stage(1, "ResolveRpkgs", "ok"), Stage(1, "FilterDepGraph", "ok")>>
             /\ cpc' = At("text", 1)
        ELSE /\ clog' = Append(clog, Stage(1, "ResolveRpkgs", "err"))
             /\ cpc' = NewtUsage
    /\ UNCHANGED <<cother, cin, NewtForce, targetForce>>

graphCmd_text(c, text) ==
    /\ cpc.at = "text"
    /\ cin.cmd = c
    /\ \E nonEmpty \in BOOLEAN :
        clog' = IF nonEmpty THEN Append(clog, Stage(1, text, "ok")) ELSE clog
    /\ cpc' = At("done", 1)
    /\ UNCHANGED <<cother, cin, NewtForce, targetForce>>

targetDepCmd_resolve == graphCmd_resolve("dep")
targetDepCmd_graph == graphCmd_graph("dep", "CreateDepGraph")
targetDepCmd_filter == graphCmd_filter("dep")
targetDepCmd_text == graphCmd_text("dep", "DepGraphText")

targetRevdepCmd_resolve == graphCmd_resolve("revdep")
targetRevdepCmd_graph == graphCmd_graph("revdep", "CreateRevdepGraph")
targetRevdepCmd_filter == graphCmd_filter("revdep")
targetRevdepCmd_text == graphCmd_text("revdep", "RevdepGraphText")

\* targetDelCmd, lines 288-306: ResolveTargets, then targetDelOne for each.
targetDelCmd_targets ==
    /\ cpc.at = "delete"
    /\ \E ok \in BOOLEAN :
        /\ clog' = Append(clog, Stage(0, "ResolveTargets", Res(ok)))
        /\ cpc' = IF ok THEN At("del_one", 1) ELSE NewtUsage
    /\ UNCHANGED <<cother, cin, NewtForce, targetForce>>

\* targetDelOne, lines 259-279: the check for user files and the question.
targetDelOne_check ==
    /\ cpc.at = "del_one"
    /\ IF ~targetForce
       THEN \E readOk \in BOOLEAN, userFiles \in BOOLEAN, rsp \in BOOLEAN :
              IF ~readOk
              THEN /\ clog' = Append(clog, Stage(cpc.i, "targetContainsUserFiles", "err"))
                   /\ cpc' = NewtUsage
              ELSE IF userFiles
              THEN /\ clog' = Append(clog, Stage(cpc.i, "PromptYesNo", IF rsp THEN "yes" ELSE "no"))
                   /\ cpc' = IF rsp THEN At("del_remove", cpc.i) ELSE NextTarget("del_one")
              ELSE /\ clog' = Append(clog, Stage(cpc.i, "targetContainsUserFiles", "ok"))
                   /\ cpc' = At("del_remove", cpc.i)
       ELSE /\ clog' = clog
            /\ cpc' = At("del_remove", cpc.i)
    /\ UNCHANGED <<cother, cin, NewtForce, targetForce>>

\* targetDelOne, lines 281-285: os.RemoveAll.
targetDelOne_remove ==
    /\ cpc.at = "del_remove"
    /\ \E ok \in BOOLEAN :
        /\ clog' = Append(clog, Stage(cpc.i, "RemoveAll", Res(ok)))
        /\ cpc' = IF ok THEN NextTarget("del_one") ELSE NewtUsage
    /\ UNCHANGED <<cother, cin, NewtForce, targetForce>>

NextCmd ==
    \/ ParseFlags
    \/ CheckArgs
    \/ targetConfigShowCmd_resolve
    \/ targetConfigShowCmd_printCfg
    \/ targetConfigInitCmd_entries
    \/ targetConfigInitCmd_prompt
    \/ targetConfigInitCmd_resolve
    \/ targetConfigInitCmd_yamlCfg
    \/ targetConfigInitCmd_WriteFile
    \/ targetDepCmd_resolve
    \/ targetDepCmd_graph
    \/ targetDepCmd_filter
    \/ targetDepCmd_text
    \/ targetRevdepCmd_resolve
    \/ targetRevdepCmd_graph
    \/ targetRevdepCmd_filter
    \/ targetRevdepCmd_text
    \/ targetDelCmd_targets
    \/ targetDelOne_check
    \/ targetDelOne_remove

SpecCmd == InitCmd /\ [][NextCmd]_vars

\* ------------------------------------------------------------ properties
Called == calls > 0
Idle == pc = "idle"

IsProto(l) == l.k = "void %s(void);"
IsStage(l) == l.k = "/*** Stage %d */"
IsLabel(l) == l.k = "/* %d.%d: %s */"
IsCall(l) == l.k = "%s();"
IsFn(l) == l.k = "void %s(void) {"

Idx(P(_)) == {i \in DOMAIN buf : P(buf[i])}

\* What the packages declare: (entry point, package, stage).
DeclaredAll == UNION {{<<n, pkgs[i].name, pkgs[i].init[n]>> : n \in DOMAIN pkgs[i].init} : i \in 1..Len(pkgs)}
DeclaredStages == {t[3] : t \in DeclaredAll}

\* The stage header that a line of the body stands under.
HeaderOf(i) == CHOOSE j \in Idx(IsStage) : j < i /\ \A m \in Idx(IsStage) : m < i => m <= j

\* C1: after a successful call, a second successful call with the same
\* arguments and no change of the file in between writes nothing and leaves
\* the file as it was.
C1_IdempotentWrite ==
    (Idle /\ ret = "nil" /\ h.prevValid /\ h.prevRet = "nil" /\ h.prevArgs = args
          /\ ~h.prevTouched /\ ~h.touched)
    => (~h.wrote /\ fs[path] = h.old)

\* C2: two runs of write on the same package list and variant produce the
\* same bytes.
C2_Deterministic ==
    (Called /\ h.prevValid /\ h.prevArgs.isLoader = args.isLoader) => buf = h.prevBuf

\* C3: the stage blocks are in strictly ascending stage order, one per
\* declared stage, every call stands in the block of its own stage, and so a
\* call of a lower stage precedes every call of a higher stage.
C3_StageOrder ==
    Called =>
      /\ \A i, j \in Idx(IsStage) : i < j => buf[i].stage < buf[j].stage
      /\ {buf[i].stage : i \in Idx(IsStage)} = DeclaredStages
      /\ \A i \in Idx(IsLabel) : buf[HeaderOf(i)].stage = buf[i].stage
      /\ \A i, j \in Idx(IsLabel) : buf[i].stage < buf[j].stage => i < j

C3_Witness ==
    /\ Called
    /\ Len(pkgs) = 2
    /\ \E n \in DOMAIN pkgs[1].init : \E m \in DOMAIN pkgs[2].init :
         pkgs[1].init[n] > pkgs[2].init[m]
    /\ Cardinality(Idx(IsStage)) = 2

\* C4: inside a stage block the calls follow the name order of their owning
\* packages, whatever the order of the package list.
C4_WithinStageByName ==
    Called =>
      \A i, j \in Idx(IsLabel) :
        (i < j /\ buf[i].stage = buf[j].stage) => NameRank(buf[i].pkg) <= NameRank(buf[j].pkg)

\* The packages of the list in ascending name order.
ByName ==
    CHOOSE s \in [1..Len(pkgs) -> {pkgs[i] : i \in 1..Len(pkgs)}] :
        \A i, j \in 1..Len(pkgs) : i < j => NameRank(s[i].name) < NameRank(s[j].name)

RECURSIVE Flatten(_, _, _)
Flatten(s, o, i) == IF i > Len(s) THEN <<>> ELSE o[s[i].name] \o Flatten(s, o, i + 1)

ProtoNames == [i \in 1..Cardinality(Idx(IsProto)) |-> SelectSeq(buf, IsProto)[i].name]

\* C5: every prototype precedes the function body, every declared entry
\* point has its prototype, and the prototypes are grouped by owning package
\* in ascending package-name order.
C5_Prototypes ==
    Called =>
      /\ \A i \in Idx(IsProto), j \in Idx(IsFn) \cup Idx(IsStage) \cup Idx(IsCall) : i < j
      /\ Len(ProtoNames) = Cardinality(DeclaredAll)
      /\ \E o \in Orders(pkgs) : ProtoNames = Flatten(ByName, o, 1)

C5_Witness ==
    /\ Called
    /\ Len(pkgs) = 2
    /\ NameRank(pkgs[1].name) > NameRank(pkgs[2].name)
    /\ DOMAIN pkgs[1].init = {"f"}
    /\ DOMAIN pkgs[2].init = {"g"}

\* The call emitted under the label at line i.
Emitted(i) == <<buf[i + 1].name, buf[i].pkg, buf[i].stage>>

\* C6: every declared (entry point, package, stage) yields exactly one call
\* in the block of its stage, nothing else is called, equal names of two
\* packages at one stage yield two calls, and the labels of a stage count
\* 0, 1, 2, ...
C6_Complete ==
    Called =>
      /\ \A i \in Idx(IsLabel) : i + 1 \in Idx(IsCall)
      /\ \A i \in Idx(IsCall) : i - 1 \in Idx(IsLabel)
      /\ {Emitted(i) : i \in Idx(IsLabel)} = DeclaredAll
      /\ Cardinality(Idx(IsLabel)) = Cardinality(DeclaredAll)
      /\ \A i \in Idx(IsLabel) :
           buf[i].idx = Cardinality({j \in Idx(IsLabel) : j < i /\ buf[j].stage = buf[i].stage})

C6_Witness ==
    /\ Called
    /\ Len(pkgs) = 2
    /\ \E n \in DOMAIN pkgs[1].init \cap DOMAIN pkgs[2].init :
         pkgs[1].init[n] = pkgs[2].init[n]

\* C7: when EnsureWritten returns nil the file exists, in an existing
\* directory, and holds exactly the bytes generated by that call.
C7_WritePost ==
    (Called /\ Idle /\ ret = "nil" /\ ~h.touched)
    => (fs[path] = File(buf) /\ path.dir \in dirs)

C7_Witness ==
    /\ Called /\ Idle /\ ret = "nil" /\ ~h.touched
    /\ ~h.old.exists /\ ~h.oldDir /\ h.wrote

\* C8: a failed filesystem operation always makes EnsureWritten return an
\* error, and after a failed read no directory is created and no file is
\* written.
C8_ErrorsPropagate ==
    /\ h.failed # {} => (Idle /\ ret = "err")
    /\ "read" \in h.failed =>
          (~h.mkdir /\ ~h.wrote /\ (~h.touched => fs[path] = h.old /\ (path.dir \in dirs) = h.oldDir))

C8_Witness ==
    /\ "read" \in h.failed /\ h.old.exists /\ h.old.data # buf /\ ret = "err"

\* C9: at every moment the generated file, and what a concurrent reader
\* reads from it, is either its complete previous contents or the complete
\* newly generated contents.
C9_NoIntermediate ==
    (Called /\ ~h.touched)
    => (fs[path] \in {h.old, File(buf)} /\ seen \in {h.old, File(buf)})
\* The entries in the order of the walk, none of them with an ignored name.
NoIgnoredName(t) ==
    t.root \notin PackageHashIgnoreDirs
    /\ \A q \in DOMAIN t.ent : Present(t, q) => q[Len(q)] \notin PackageHashIgnoreDirs

RECURSIVE NamesAndContents(_, _, _)
NamesAndContents(t, q, names) ==
    IF names = <<>> THEN <<>>
    ELSE LET k == Append(q, Head(names))
         IN Head(names) \o t.ent[k].data
            \o (IF t.ent[k].kind = "dir" THEN NamesAndContents(t, k, ReadDir(t, k)) ELSE <<>>)
            \o NamesAndContents(t, q, Tail(names))

\* C10: the digest receives, in walk order, every directory name and every
\* file's name and contents, so renaming one file (same contents, same place
\* in the walk) changes what the digest receives.
C10_HashInput ==
    /\ (hres.done /\ hres.err = "nil" /\ NoIgnoredName(tree))
          => hres.input = tree.root \o NamesAndContents(tree, <<>>, ReadDir(tree, <<>>))
    /\ (edit.kind = "rename" /\ hres.done /\ hres.err = "nil" /\ phres.err = "nil"
          /\ NoIgnoredName(tree) /\ NoIgnoredName(ptree))
          => hres.input # phres.input

\* A file lies under an ignored directory when one of the directories between
\* the package's base directory and the file has a name of the ignore set.
UnderIgnoredDir(q) ==
    \E i \in 1..(Len(q) - 1) : q[i] \in PackageHashIgnoreDirs

\* C11: every regular file that is not under an ignored directory contributes
\* its contents to the digest, so changing the contents of such a file
\* changes what the digest receives; this includes a regular file named obj
\* or bin and a package whose base directory is named obj or bin.
C11_HashCoverage ==
    (edit.kind = "change" /\ hres.done /\ hres.err = "nil" /\ phres.err = "nil"
        /\ ~UnderIgnoredDir(edit.q))
        => hres.input # phres.input

KnownType(ts) == \E t \in DOMAIN PackageTypeNames : PackageTypeNames[t] = ts

\* C15: Load never fails because of pkg.type: it fails exactly when the
\* descriptor cannot be read or the version does not parse; a known type
\* name gives that type, every other string (the empty one too) gives the
\* library type.
C15_PermissiveType ==
    lres.done =>
        /\ (lres.err = "nil") = (lcfg.readOk /\ lcfg.versOk)
        /\ lcfg.readOk =>
            /\ KnownType(lcfg.type) => PackageTypeNames[lres.packageType] = lcfg.type
            /\ ~KnownType(lcfg.type) => lres.packageType = "PACKAGE_TYPE_LIB"

C15_Witness ==
    /\ lres.done
    /\ lres.err = "nil"
    /\ ~KnownType(lcfg.type)
    /\ lcfg.type # <<>>
    /\ lres.packageType = "PACKAGE_TYPE_LIB"

\* Directories of dtree, and those that hold a descriptor file.
DDirs == {q \in DOMAIN dtree.ent : dtree.ent[q].kind = "dir"}
DPkgDirs == {q \in DDirs : dtree.ent[q].desc.present}
SkippedName(name) == LocalPackageSpecialName(name) \/ HasPrefix(name, <<".">>)
NoSkippedName(q) == \A i \in 1..Len(q) : ~SkippedName(q[i])
Below(q, k) == Len(q) > Len(k) /\ SubSeq(q, 1, Len(k)) = k

\* C12: a directory with a descriptor is added as a package and discovery
\* does not descend below it, so a directory with a descriptor nested inside
\* it is not discovered; sibling directories with descriptors are all
\* discovered.
C12_PackageBoundary ==
    (dres.done /\ dres.err = "nil") =>
        /\ \A q \in DPkgDirs : \A k \in DPkgDirs :
              (Below(q, k) /\ k \in dres.loaded) => q \notin dres.entered
        /\ \A q \in DPkgDirs :
              (NoSkippedName(q) /\ ~\E k \in DPkgDirs : Below(q, k)) => q \in dres.loaded

\* C12, amended: a directory with a descriptor is added as a package, and
\* discovery descends into its subdirectories all the same (before it loads
\* the directory), so a nested directory with a descriptor is discovered
\* too, as are all siblings; pkgList holds, under each name loaded, a
\* directory whose descriptor carries that name.
C12_Amended ==
    (dres.done /\ dres.err = "nil") =>
        /\ \A q \in DPkgDirs : NoSkippedName(q) => q \in dres.loaded
        /\ dres.loaded \subseteq DPkgDirs
        /\ DOMAIN dres.pkgList = {dtree.ent[q].desc.name : q \in dres.loaded}
        /\ \A n \in DOMAIN dres.pkgList :
              dres.pkgList[n] \in dres.loaded /\ dtree.ent[dres.pkgList[n]].desc.name = n

C12_Witness ==
    /\ dres.done
    /\ dres.err = "nil"
    /\ \E q \in dres.loaded, k \in dres.loaded : Below(q, k) /\ NoSkippedName(q)
    /\ \E q \in dres.loaded, k \in dres.loaded :
          /\ q # k
          /\ Len(q) = 2
          /\ Len(k) = 2
          /\ q[1] = k[1]

\* C13: at every depth below the search path, its immediate children
\* included, discovery never enters or loads a directory whose name starts
\* with "." or is src, include or bin; every other directory is visited.
C13_SkippedDirs ==
    dres.done =>
        /\ \A q \in dres.entered \cup dres.loaded : ~SkippedName(q[Len(q)])
        /\ dres.err = "nil" => \A q \in DDirs : NoSkippedName(q) => q \in dres.entered

\* The package names and the setting names of a package that a listing of
\* scfg has to show, in ascending order.
ListedPkgs == SelectSeq(StrOrder, LAMBDA p : p \in EntryPkgs(scfg))
ListedSettings(p) == SelectSeq(StrOrder, LAMBDA n : n \in EntryNamesOf(scfg, p))

\* The listing reduced to its package headers and its setting lines, the
\* latter with the value shown.
IsHeader(l) == l.k \in {"* PACKAGE: %s\n", "    ### %s\n"}
IsValue(l) == l.k \in {"    * Value: %s", "    %s: '%s'\n"}
IsName(l) == l.k \in {"  * Setting: %s\n", "    %s: '%s'\n"}
Listing == IF sout.op = "printCfg" THEN sout.status ELSE sout.ret
HeadersOf(ls) == SelectSeq(ls, IsHeader)
NamesOf(ls) == SelectSeq(ls, IsName)
ValuesOf(ls) == SelectSeq(ls, IsValue)
ExpectedNames == catAll([i \in 1..Len(ListedPkgs) |-> ListedSettings(ListedPkgs[i])])

\* C16: printCfg and yamlCfg list the packages in ascending order of name
\* and, within a package, its settings in ascending order of name, each with
\* its current effective value, in whatever order the map and the entry
\* slices come.
C16_StableListing ==
    sout.done =>
        /\ [i \in 1..Len(HeadersOf(Listing)) |-> HeadersOf(Listing)[i].a] = ListedPkgs
        /\ [i \in 1..Len(NamesOf(Listing)) |-> NamesOf(Listing)[i].a] = ExpectedNames
        /\ Len(ValuesOf(Listing)) = Len(ExpectedNames)
        /\ \A i \in 1..Len(ExpectedNames) :
              LET l == ValuesOf(Listing)[i]
              IN (IF sout.op = "printCfg" THEN l.a ELSE l.b)
                    = scfg.Settings[ExpectedNames[i]].Value
        /\ \A i \in 1..Len(Listing) : \A j \in 1..Len(Listing) :
              (i < j /\ IsHeader(Listing[j]) /\ IsName(Listing[i]))
                  => PkgOf(scfg.Settings[Listing[i].a]) # Listing[j].a

C16_Witness ==
    /\ sout.done
    /\ sout.op = "yamlCfg"
    /\ Len(sout.keys) = 2
    /\ StrRank(sout.keys[1]) > StrRank(sout.keys[2])
    /\ \E p \in DOMAIN sout.ents :
          /\ Len(sout.ents[p]) = 2
          /\ StrRank(sout.ents[p][1]) > StrRank(sout.ents[p][2])
          /\ scfg.Settings[sout.ents[p][1]].Value = "2"

\* The stages that use a target's resolution.
UseStages ==
    {"WarningText", "printCfg", "yamlCfg", "WriteFile", "CreateDepGraph",
     "CreateRevdepGraph", "ResolveRpkgs", "FilterDepGraph", "DepGraphText",
     "RevdepGraphText"}

\* C14: in config show, config init, dep and revdep, once the resolution of
\* a target has failed no later stage runs for that target, and every stage
\* that uses a resolution comes after a successful one of its target.
C14_ResolveBeforeUse ==
    cin.cmd \in {"show", "init", "dep", "revdep"} =>
        /\ \A j \in 1..Len(clog) : \A k \in 1..Len(clog) :
              (j < k /\ clog[j].stage = "Resolve" /\ clog[j].res = "err")
                  => clog[k].i # clog[j].i
        /\ \A k \in 1..Len(clog) :
              clog[k].stage \in UseStages
                  => \E j \in 1..(k - 1) : clog[j] = Stage(clog[k].i, "Resolve", "ok")
        /\ (clog # <<>> /\ clog[Len(clog)].stage = "Resolve" /\ clog[Len(clog)].res = "err")
              => cpc.at = "exit"

C14_Witness ==
    /\ cin.cmd = "init"
    /\ cpc.at = "exit"
    /\ Len(clog) > 1
    /\ clog[Len(clog)] = Stage(2, "Resolve", "err")
    /\ \E k \in 1..Len(clog) : clog[k] = Stage(1, "WriteFile", "ok")

\* C17: with --force, target delete and target config init never ask.
C17_ForceNoPrompt ==
    cin.force => \A k \in 1..Len(clog) : clog[k].stage # "PromptYesNo"
====
